---- MODULE Spec2Model ----
(***************************************************************************)
(* green-ci: the energy / carbon measurement core of the CLI, and the      *)
(* badge service's GET /badge/{org}/{repo}.svg.                            *)
(*                                                                         *)
(*   cli/src/green_ci/measurement.py   MeasurementResult,                  *)
(*                                     ElectricityMapsClient, StubMeasurer,*)
(*                                     EnergyMeasurer,                     *)
(*                                     measure_command_execution           *)
(*   cli/src/green_ci/cli.py           the `green-ci measure` command      *)
(*   cli/src/green_ci/schema.py        validate_measurement_output         *)
(*   badge-service/badge_service/main.py           get_badge               *)
(*   badge-service/badge_service/svg_generator.py  BadgeData, SVGGenerator *)
(*   badge-service/badge_service/database.py       get_latest_measurement  *)
(*                                                                         *)
(* One thread of control runs one call at a time; `pc` is its position.    *)
(* The child process, the wall clock, the process environment and the      *)
(* Electricity Maps API are the environment: their behaviour is chosen     *)
(* nondeterministically.                                                   *)
(*                                                                         *)
(* Numbers.  Python floats are modelled by exact rationals <<n, d>>, d > 0,*)
(* in lowest terms.  The wall clock counts ticks of 100 ms, so a duration  *)
(* of t ticks is the rational t/10 seconds.  energy_kwh and co2_kg are     *)
(* held multiplied by KWhScale (3 600 000, i.e. in watt-seconds, resp. the *)
(* same multiple of a kilogram): "(power * (duration / 3600)) / 1000"      *)
(* becomes power * duration, and the floor 0.000001 becomes 18/5.  The     *)
(* scaling keeps every intermediate value inside TLC's 32-bit integers.    *)
(* time.time() is taken to be non-decreasing (no backwards clock step).    *)
(***************************************************************************)
EXTENDS Integers, Sequences, FiniteSets, TLC

\* ------------------------------------------------------------------ bounds
\* Wall-clock ticks the environment may let pass, outside the poll sleeps.
MaxClock == 1
\* Most samples one measurement collects (the child exits by then).
MaxSamples == 2
\* Calls made one after the other.
MaxCalls == 2
\* Rows stored in measurement_runs.
MaxRows == 2
\* Ticks of the database's clock.
MaxDbClock == 1

\* ------------------------------------------------------- program constants
\* ElectricityMapsClient.DEFAULT_CARBON_INTENSITY, gCO2/kWh.
DEFAULT_CARBON_INTENSITY == 400
\* time.sleep(0.1): one poll interval, in clock ticks of 100 ms.
SleepTicks == 1
\* Clock ticks per second.
TicksPerSecond == 10
\* energy_kwh and co2_kg are held multiplied by this (watt-seconds per kWh).
KWhScale == 3600000
\* memory_info().rss is held in units of 2 MiB; this many make 1024 ** 3 bytes.
MemUnitsPerGB == 512
\* The synthetic sample's 50 * 1024 * 1024 bytes, in units of 2 MiB.
FallbackRssUnits == 25

\* --------------------------------------------------------------- rationals
RECURSIVE GCD(_, _)
GCD(a, b) == IF b = 0 THEN a ELSE GCD(b, a % b)

Abs(x) == IF x < 0 THEN -x ELSE x

\* <<n, d>> in lowest terms with d > 0.
Norm(n, d) ==
    LET g == GCD(Abs(n), Abs(d))
        s == IF d < 0 THEN -1 ELSE 1
    IN  IF n = 0 THEN <<0, 1>> ELSE <<s * (n \div g), s * (d \div g)>>

Rat(n) == <<n, 1>>

RatAdd(x, y) == Norm(x[1] * y[2] + y[1] * x[2], x[2] * y[2])

\* Cross-cancels before multiplying, so the products stay small.
RatMul(x, y) ==
    LET a == Norm(x[1], y[2])
        b == Norm(y[1], x[2])
    IN  Norm(a[1] * b[1], a[2] * b[2])

RatLess(x, y) == x[1] * y[2] < y[1] * x[2]

RatMax(x, y) == IF RatLess(x, y) THEN y ELSE x

RatNeg(x) == x[1] < 0

RECURSIVE SumSeq(_)
SumSeq(s) == IF s = <<>> THEN 0 ELSE Head(s) + SumSeq(Tail(s))

\* ----------------------------------------------------------- value domains
\* Python's None / an unset environment variable, among strings.
NoneStr == "<None>"

\* A command argument: None, the empty list, or a list of arguments.
NoneCommand == [none |-> TRUE, argv |-> <<>>]

ListCommand(argv) == [none |-> FALSE, argv |-> argv]

Commands == {NoneCommand, ListCommand(<<>>), ListCommand(<<"echo", "hi">>)}

\* `not command`: None and the empty list are falsy.
Falsy(cmd) == cmd.none \/ cmd.argv = <<>>

\* `not s` for an optional string.
FalsyStr(s) == s = NoneStr \/ s = ""

\* a or b, on optional strings.
PyOr(a, b) == IF FalsyStr(a) THEN b ELSE a

TestFlagValues == {NoneStr, "0", "1"}

KeyValues == {NoneStr, "", "token"}

\* A JSON value found under "carbonIntensity".
JNum(n) == [kind |-> "number", n |-> n]

JNull == [kind |-> "null", n |-> 0]

JText == [kind |-> "string", n |-> 0]

JsonValues == {JNum(250), JNum(0), JNum(-50), JNull, JText}

\* What requests.get(...) can do: raise, or answer with a status and a body.
\* A body is unparsable, a JSON value that is no object, or an object with or
\* without the carbonIntensity field.
Bodies ==
    {[kind |-> "unparsable", has |-> FALSE, val |-> JNull],
     [kind |-> "array", has |-> FALSE, val |-> JNull],
     [kind |-> "object", has |-> FALSE, val |-> JNull]}
    \cup {[kind |-> "object", has |-> TRUE, val |-> v] : v \in JsonValues}

Responses ==
    {[kind |-> k, status |-> 0, body |-> [kind |-> "unparsable", has |-> FALSE, val |-> JNull]] :
        k \in {"ConnectionError", "Timeout"}}
    \cup {[kind |-> "response", status |-> 500,
           body |-> [kind |-> "unparsable", has |-> FALSE, val |-> JNull]]}
    \cup {[kind |-> "response", status |-> 200, body |-> b] : b \in Bodies}

\* The value of `response` while requests.get has not been called.
NoResponse ==
    [kind |-> "none", status |-> 0,
     body |-> [kind |-> "unparsable", has |-> FALSE, val |-> JNull]]

\* One poll's readings: <<cpu_percent, rss in units of 2 MiB>>.
Readings == {<<0, FallbackRssUnits>>, <<50, MemUnitsPerGB>>}

ExitStatuses == {0, 1}

\* ------------------------------------------------------ MeasurementResult
\* __post_init__ without the check of duration_s.
post_init_no_duration(e, c, d) ==
    IF RatNeg(e) THEN "ValueError: Energy consumption cannot be negative"
    ELSE IF RatNeg(c) THEN "ValueError: CO2 emissions cannot be negative"
    ELSE ""

\* __post_init__: the first failing check decides the error; "" when all pass.
post_init(e, c, d) ==
    IF RatNeg(e) THEN "ValueError: Energy consumption cannot be negative"
    ELSE IF RatNeg(c) THEN "ValueError: CO2 emissions cannot be negative"
    ELSE IF RatNeg(d) THEN "ValueError: Duration cannot be negative"
    ELSE ""

MeasurementResult(e, c, d) == [energy_kwh |-> e, co2_kg |-> c, duration_s |-> d]

\* The value of `result` while no MeasurementResult exists.
NoResult == MeasurementResult(Rat(0), Rat(0), Rat(0))

\* @dataclass is used without frozen=True: the class accepts assignments to
\* the fields of an instance, and __post_init__ does not run again.
frozen == FALSE

\* to_dict with the values of energy_kwh and co2_kg exchanged.
to_dict_swapped(r) ==
    [k \in {"energy_kwh", "co2_kg", "duration_s"} |->
        IF k = "energy_kwh" THEN r.co2_kg
        ELSE IF k = "co2_kg" THEN r.energy_kwh
        ELSE r.duration_s]

to_dict(r) ==
    [k \in {"energy_kwh", "co2_kg", "duration_s"} |->
        IF k = "energy_kwh" THEN r.energy_kwh
        ELSE IF k = "co2_kg" THEN r.co2_kg
        ELSE r.duration_s]

\* ------------------------------------------------- ElectricityMapsClient
\* __init__: self.api_key = api_key or os.getenv("ELECTRICITY_MAPS_API_KEY").
client_init(arg, envkey) == PyOr(arg, envkey)

\* get_carbon_intensity without the `if not self.api_key` return.
issues_request_always(key) == TRUE

\* Whether get_carbon_intensity issues requests.get for this key.
issues_request(key) == ~FalsyStr(key)

\* The try block with the 200 branch returning the default instead of the
\* body's field.
try_get_no_parse(key, resp) ==
    IF issues_request(key) /\ resp.kind # "response"
    THEN [exc |-> resp.kind, value |-> JNull]
    ELSE [exc |-> "", value |-> JNum(DEFAULT_CARBON_INTENSITY)]

\* The try block of get_carbon_intensity: the exception it raises ("" when
\* none) and the value it returns.
try_get(key, resp) ==
    IF ~issues_request(key)
    THEN [exc |-> "", value |-> JNum(DEFAULT_CARBON_INTENSITY)]
    ELSE IF resp.kind # "response"
    THEN [exc |-> resp.kind, value |-> JNull]
    ELSE IF resp.status = 200
    THEN IF resp.body.kind = "unparsable"
         THEN [exc |-> "JSONDecodeError", value |-> JNull]
         ELSE IF resp.body.kind # "object"
         THEN [exc |-> "AttributeError", value |-> JNull]
         ELSE IF resp.body.has
         THEN [exc |-> "", value |-> resp.body.val]
         ELSE [exc |-> "", value |-> JNum(DEFAULT_CARBON_INTENSITY)]
    ELSE [exc |-> "", value |-> JNum(DEFAULT_CARBON_INTENSITY)]

\* get_carbon_intensity without its `except Exception` handler.
get_carbon_intensity_no_except(key, resp) == try_get(key, resp)

\* get_carbon_intensity: `except Exception` turns every exception of the try
\* block into the default.
get_carbon_intensity(key, resp) ==
    LET t == try_get(key, resp)
    IN  IF t.exc # ""
        THEN [exc |-> "", value |-> JNum(DEFAULT_CARBON_INTENSITY)]
        ELSE t

\* ------------------------------------------------------- EnergyMeasurer
\* 0.000001 kWh, the floor of the estimate.
MinEnergy == RatMul(<<1, 1000000>>, Rat(KWhScale))

\* The estimator with averages of zero, not 5% and 0.05 GB, for empty lists.
calculate_energy_zero_fallback(cpu_samples, memory_samples, dur) ==
    LET empty == cpu_samples = <<>> \/ memory_samples = <<>>
        avg_cpu ==
            IF empty THEN Rat(0)
            ELSE Norm(SumSeq(cpu_samples), Len(cpu_samples))
        avg_memory_gb ==
            IF empty THEN Rat(0)
            ELSE RatMul(Norm(SumSeq(memory_samples), Len(memory_samples)),
                        <<1, MemUnitsPerGB>>)
        total_power_w ==
            RatAdd(RatAdd(RatAdd(Rat(15), RatMul(avg_cpu, <<1, 2>>)),
                          RatMul(avg_memory_gb, Rat(3))), Rat(20))
        energy ==
            RatMul(RatMul(RatMul(total_power_w, RatMul(dur, <<1, 3600>>)), Rat(KWhScale)),
                   <<1, 1000>>)
    IN  RatMax(energy, MinEnergy)

\* The estimator without the base system power of 20 W.
calculate_energy_no_base(cpu_samples, memory_samples, dur) ==
    LET empty == cpu_samples = <<>> \/ memory_samples = <<>>
        avg_cpu ==
            IF empty THEN Rat(5)
            ELSE Norm(SumSeq(cpu_samples), Len(cpu_samples))
        avg_memory_gb ==
            IF empty THEN <<5, 100>>
            ELSE RatMul(Norm(SumSeq(memory_samples), Len(memory_samples)),
                        <<1, MemUnitsPerGB>>)
        total_power_w ==
            RatAdd(RatAdd(Rat(15), RatMul(avg_cpu, <<1, 2>>)), RatMul(avg_memory_gb, Rat(3)))
        energy ==
            RatMul(RatMul(RatMul(total_power_w, RatMul(dur, <<1, 3600>>)), Rat(KWhScale)),
                   <<1, 1000>>)
    IN  RatMax(energy, MinEnergy)

\* The estimator without the final max(energy_kwh, 0.000001).
calculate_energy_no_floor(cpu_samples, memory_samples, dur) ==
    LET empty == cpu_samples = <<>> \/ memory_samples = <<>>
        avg_cpu ==
            IF empty THEN Rat(5)
            ELSE Norm(SumSeq(cpu_samples), Len(cpu_samples))
        avg_memory_gb ==
            IF empty THEN <<5, 100>>
            ELSE RatMul(Norm(SumSeq(memory_samples), Len(memory_samples)),
                        <<1, MemUnitsPerGB>>)
        total_power_w ==
            RatAdd(RatAdd(RatAdd(Rat(15), RatMul(avg_cpu, <<1, 2>>)),
                          RatMul(avg_memory_gb, Rat(3))), Rat(20))
    IN  RatMul(RatMul(RatMul(total_power_w, RatMul(dur, <<1, 3600>>)), Rat(KWhScale)),
               <<1, 1000>>)

calculate_energy_consumption(cpu_samples, memory_samples, dur) ==
    LET empty == cpu_samples = <<>> \/ memory_samples = <<>>
        avg_cpu ==
            IF empty THEN Rat(5)
            ELSE Norm(SumSeq(cpu_samples), Len(cpu_samples))
        avg_memory_gb ==
            IF empty THEN <<5, 100>>
            ELSE RatMul(Norm(SumSeq(memory_samples), Len(memory_samples)),
                        <<1, MemUnitsPerGB>>)
        cpu_power_w == RatAdd(Rat(15), RatMul(avg_cpu, <<1, 2>>))
        memory_power_w == RatMul(avg_memory_gb, Rat(3))
        base_power_w == Rat(20)
        total_power_w == RatAdd(RatAdd(cpu_power_w, memory_power_w), base_power_w)
        hours == RatMul(dur, <<1, 3600>>)
        energy ==
            RatMul(RatMul(RatMul(total_power_w, hours), Rat(KWhScale)), <<1, 1000>>)
    IN  RatMax(energy, MinEnergy)

\* energy_kwh * (carbon_intensity / 1000); a non-number raises TypeError.
IsNumber(v) == v.kind = "number"

\* The product without the division by 1000 (grams instead of kilograms).
co2_of_grams(energy, ci) == RatMul(energy, Rat(ci.n))

co2_of(energy, ci) == RatMul(energy, Norm(ci.n, 1000))

\* The samples substituted by the `except Exception` handler.
FallbackCpu == <<5>>

FallbackMem == <<FallbackRssUnits>>

\* --------------------------------------------------------- StubMeasurer
StubEnergy == RatMul(<<1, 1000>>, Rat(KWhScale))

StubCo2 == RatMul(<<5, 10000>>, Rat(KWhScale))

\* ------------------------------------------------------------------ cli
\* validate_measurement_output: the three required numbers are >= 0.
schema_valid(d) ==
    /\ {"energy_kwh", "co2_kg", "duration_s"} \subseteq DOMAIN d
    /\ \A k \in {"energy_kwh", "co2_kg", "duration_s"} : ~RatNeg(d[k])

\* f"{x:.Nf}": x rounded to a multiple of 1/unitsPerOne, as a count of units
\* (rstrip of zeros and of the point does not change the number).
RoundRat(x) == (2 * x[1] + x[2]) \div (2 * x[2])

\* energy_kwh and co2_kg to 8 decimals: counts of 1e-8.
Format8(x) == RoundRat(RatMul(x, Norm(100000000, KWhScale)))

\* duration_s to 6 decimals: a count of 1e-6 s.
Format6(x) == RoundRat(RatMul(x, Rat(1000000)))

json_output(d) ==
    [energy_kwh |-> Format8(d["energy_kwh"]),
     co2_kg |-> Format8(d["co2_kg"]),
     duration_s |-> Format6(d["duration_s"])]

\* -------------------------------------------------------- badge service
\* Optional[float] and Optional[datetime]: None, or a value.
NoneFloat == [some |-> FALSE, v |-> Rat(0)]

SomeFloat(x) == [some |-> TRUE, v |-> x]

NoneTime == [some |-> FALSE, v |-> 0]

SomeTime(t) == [some |-> TRUE, v |-> t]

\* The path parameters requests come with, and the co2_kg (in kg) runs store.
Orgs == {"acme", "other"}

Repos == {"app", "lib"}

Co2Values == {Rat(0), <<1, 10>>, <<1, 2>>, <<3, 4>>}

\* A row of measurement_runs; only the columns the service reads.
MeasurementRun(o, r, c, t) == [org |-> o, repo |-> r, co2_kg |-> c, created_at |-> t]

\* scalar_one_or_none(): a row, or None.
NoRow == [found |-> FALSE, row |-> MeasurementRun("", "", Rat(0), 0)]

FoundRow(r) == [found |-> TRUE, row |-> r]

\* The query with ORDER BY created_at ascending: the oldest rows of org/repo.
OldestRows(t, o, r) ==
    LET matching == {t[i] : i \in {j \in DOMAIN t : t[j].org = o /\ t[j].repo = r}}
    IN  {x \in matching : \A y \in matching : x.created_at <= y.created_at}

\* The rows get_latest_measurement's query can return: those of org/repo with
\* the greatest created_at (ORDER BY created_at DESC LIMIT 1 picks one of them).
LatestRows(t, o, r) ==
    LET matching == {t[i] : i \in {j \in DOMAIN t : t[j].org = o /\ t[j].repo = r}}
    IN  {x \in matching : \A y \in matching : y.created_at <= x.created_at}

BadgeData(o, r, c, u) == [org |-> o, repo |-> r, co2_kg |-> c, last_updated |-> u]

NoBadgeData == BadgeData("", "", NoneFloat, NoneTime)

\* Every BadgeData that can be constructed for org/repo: co2_kg and
\* last_updated are optional, each on its own.
BadgeDatas(o, r) ==
    {BadgeData(o, r, c, u) :
        c \in {NoneFloat} \cup {SomeFloat(x) : x \in Co2Values},
        u \in {NoneTime} \cup {SomeTime(t) : t \in 0..MaxDbClock}}

has_data(d) == d.co2_kg.some

\* get_color with the yellow band ending below 0.5 (co2_kg < 0.5).
get_color_strict(d) ==
    IF ~has_data(d) THEN "#9f9f9f"
    ELSE IF RatLess(d.co2_kg.v, <<1, 10>>) THEN "#4c1"
    ELSE IF RatLess(d.co2_kg.v, <<1, 2>>) THEN "#dfb317"
    ELSE "#e05d44"

get_color(d) ==
    IF ~has_data(d) THEN "#9f9f9f"
    ELSE IF RatLess(d.co2_kg.v, <<1, 10>>) THEN "#4c1"
    ELSE IF ~RatLess(<<1, 2>>, d.co2_kg.v) THEN "#dfb317"
    ELSE "#e05d44"

\* "no data", or f"{co2_kg:.3f} kg": the number of thousandths, rounded.
get_display_text(d) ==
    IF ~has_data(d) THEN [text |-> "no data", milli |-> 0]
    ELSE [text |-> "kg", milli |-> RoundRat(RatMul(d.co2_kg.v, Rat(1000)))]

\* len(value_text): "no data" has 7 characters; "d.ddd kg" has 8, and one more
\* for every further digit before the point.
RECURSIVE Digits(_)
Digits(n) == IF n < 10 THEN 1 ELSE 1 + Digits(n \div 10)

text_len(t) == IF t.text = "no data" THEN 7 ELSE Digits(t.milli \div 1000) + 7

\* hashlib.md5(content.encode()).hexdigest(): the digest stands for the
\* content it was computed from (no two contents of the model collide).
md5(content) == [md5 |-> content]

\* The string get_etag hashes.
etag_content(d) ==
    IF ~has_data(d) \/ ~d.last_updated.some
    THEN [org |-> d.org, repo |-> d.repo, data |-> FALSE, co2_kg |-> Rat(0),
          last_updated |-> 0]
    ELSE [org |-> d.org, repo |-> d.repo, data |-> TRUE, co2_kg |-> d.co2_kg.v,
          last_updated |-> d.last_updated.v]

get_etag(d) == md5(etag_content(d))

\* SVGGenerator.generate_badge: what the template is rendered with.
generate_badge(d) ==
    LET value_text == get_display_text(d)
        label_width == 3 * 7 + 12
        value_width == text_len(value_text) * 7 + 12
    IN  [label_text |-> "CO2",
         value_text |-> value_text,
         color |-> get_color(d),
         label_width |-> label_width,
         value_width |-> value_width,
         total_width |-> label_width + value_width,
         title |-> <<d.org, d.repo>>]

\* The value of svg_content while nothing has been rendered.
NoSvg ==
    [label_text |-> "", value_text |-> [text |-> "", milli |-> 0], color |-> "",
     label_width |-> 0, value_width |-> 0, total_width |-> 0, title |-> <<"", "">>]

\* A header's value: a plain string, or the ETag in double quotes.
TextHeader(s) == [text |-> s, quoted |-> md5(etag_content(NoBadgeData))]

QuotedHeader(e) == [text |-> "", quoted |-> e]

\* headers[name] = value, on a mapping from header names to values.
SetHeader(h, name, value) ==
    [n \in DOMAIN h \cup {name} |-> IF n = name THEN value ELSE h[n]]

NoHeaders == [n \in {} |-> TextHeader("")]

\* FastAPIResponse(content=..., media_type=...): a new response object with
\* status 200, whose only headers are the ones its constructor derives from
\* the media type.
FastAPIResponse(content, media_type) ==
    [status |-> 200, content |-> content, media_type |-> media_type,
     headers |-> SetHeader(NoHeaders, "content-type", TextHeader(media_type))]

\* The framework's answer when the handler raised.
ErrorResponse ==
    [status |-> 500, content |-> NoSvg, media_type |-> "text/plain",
     headers |-> SetHeader(NoHeaders, "content-type", TextHeader("text/plain"))]

\* The value of http_response while nothing has been returned.
NoHttpResponse == [status |-> 0, content |-> NoSvg, media_type |-> "", headers |-> NoHeaders]

\* ---------------------------------------------------------------- state
VARIABLES
    pc,                     \* position of the one thread of control
    caller,                 \* "cli", "api" (measure_command_execution) or "client"
    calls,                  \* calls started so far
    environ,                \* os.environ: GREEN_CI_TEST, ELECTRICITY_MAPS_API_KEY
    clock,                  \* time.time(), in ticks of 100 ms
    command,                \* the argument of measure_command_execution
    measurer,               \* "", "StubMeasurer" or "EnergyMeasurer"
    key_arg,                \* the api_key argument of ElectricityMapsClient(...)
    api_key,                \* ElectricityMapsClient.api_key
    response,               \* what requests.get(...) did, NoResponse if not called
    carbon_intensity,       \* the value get_carbon_intensity returned
    start_time,
    end_time,
    duration,
    process,                \* the child: "none", "running", "exited" (a zombie), "reaped"
    returncode,
    cpu_percent,            \* the tick's readings
    memory_info,
    cpu_usage_samples,
    memory_usage_samples,
    broke,                  \* how monitoring ended: "", or the exception's class
    energy_kwh,
    co2_kg,
    result,                 \* the MeasurementResult returned
    error,                  \* the exception raised to the caller, "" if none
    stdout,                 \* lines written to stdout
    stderr,
    exit_code,              \* sys.exit's argument; -1 while the process runs
    built,                  \* measurers constructed in this call
    lookups,                \* get_carbon_intensity calls in this call
    requests,               \* requests.get calls in this call
    spawned,                \* child processes started in this call
    table,                  \* measurement_runs: the rows, in insertion order
    db_now,                 \* the database's now(), for created_at
    bpc,                    \* position of get_badge
    org,                    \* the request's path parameters
    repo,
    measurement,            \* what get_latest_measurement returned
    badge_data,
    svg_content,
    response_headers,       \* headers of the injected `response` parameter
    http_response           \* what get_badge returned: what the client receives

io == <<stdout, stderr, exit_code>>

effects == <<built, lookups, requests, spawned>>

child == <<process, returncode>>

samples == <<cpu_percent, memory_info, cpu_usage_samples, memory_usage_samples, broke>>

times == <<start_time, end_time, duration>>

figures == <<energy_kwh, co2_kg, result, error>>

setup == <<caller, calls, environ, command, measurer, key_arg, api_key>>

lookup == <<response, carbon_intensity>>

\* The badge service's state.
badge == <<table, db_now, bpc, org, repo, measurement, badge_data, svg_content,
           response_headers, http_response>>

\* The CLI's state.
cli == <<pc, clock, setup, lookup, times, child, samples, figures, io, effects>>

vars == <<pc, clock, setup, lookup, times, child, samples, figures, io, effects, badge>>

\* A call is over: nothing runs until the next call starts.
Over == pc \in {"idle", "returned", "raised", "exited"}

Launched == process # "none"

Init ==
    /\ pc = "idle"
    /\ caller = "api"
    /\ calls = 0
    /\ environ = [GREEN_CI_TEST |-> NoneStr, ELECTRICITY_MAPS_API_KEY |-> NoneStr]
    /\ clock = 0
    /\ command = NoneCommand
    /\ measurer = ""
    /\ key_arg = NoneStr
    /\ api_key = NoneStr
    /\ response = NoResponse
    /\ carbon_intensity = JNull
    /\ start_time = 0
    /\ end_time = 0
    /\ duration = Rat(0)
    /\ process = "none"
    /\ returncode = 0
    /\ cpu_percent = 0
    /\ memory_info = 0
    /\ cpu_usage_samples = <<>>
    /\ memory_usage_samples = <<>>
    /\ broke = ""
    /\ energy_kwh = Rat(0)
    /\ co2_kg = Rat(0)
    /\ result = NoResult
    /\ error = ""
    /\ stdout = <<>>
    /\ stderr = <<>>
    /\ exit_code = -1
    /\ built = 0
    /\ lookups = 0
    /\ requests = 0
    /\ spawned = 0
    /\ table = <<>>
    /\ db_now = 0
    /\ bpc = "idle"
    /\ org = ""
    /\ repo = ""
    /\ measurement = NoRow
    /\ badge_data = NoBadgeData
    /\ svg_content = NoSvg
    /\ response_headers = NoHeaders
    /\ http_response = NoHttpResponse

\* ------------------------------------------------------- direct callers
\* The sample lists of at most MaxSamples readings drawn from S.
SampleLists(S) == UNION {[1..n -> S] : n \in 0..MaxSamples}

\* Durations in seconds: none, one tick, a second, an hour, and a negative
\* one (the wall clock was set back).
Durations == {Rat(0), Norm(1, TicksPerSecond), Rat(1), Rat(3600), Rat(-1)}

\* Field values a MeasurementResult is constructed with.
FieldValues == {Rat(-1), Rat(0), Rat(1)}

\* What is common to the states direct calls start from: nothing else has
\* been done or is going on.
DirectCommon ==
    /\ calls = MaxCalls
    /\ environ = [GREEN_CI_TEST |-> NoneStr, ELECTRICITY_MAPS_API_KEY |-> NoneStr]
    /\ clock = 0
    /\ command = NoneCommand
    /\ key_arg = NoneStr
    /\ api_key = NoneStr
    /\ response = NoResponse
    /\ start_time = 0
    /\ end_time = 0
    /\ process = "none"
    /\ returncode = 0
    /\ cpu_percent = 0
    /\ memory_info = 0
    /\ broke = ""
    /\ result = NoResult
    /\ error = ""
    /\ stdout = <<>>
    /\ stderr = <<>>
    /\ exit_code = -1
    /\ built = 0
    /\ lookups = 0
    /\ requests = 0
    /\ spawned = 0
    /\ table = <<>>
    /\ db_now = 0
    /\ bpc = "idle"
    /\ org = ""
    /\ repo = ""
    /\ measurement = NoRow
    /\ badge_data = NoBadgeData
    /\ svg_content = NoSvg
    /\ response_headers = NoHeaders
    /\ http_response = NoHttpResponse

\* EnergyMeasurer()._calculate_energy_consumption(cpu_samples, memory_samples,
\* duration), called with any two lists and any duration.
EstimateInit ==
    /\ pc = "estimate"
    /\ caller = "estimator"
    /\ measurer = "EnergyMeasurer"
    /\ carbon_intensity = JNull
    /\ cpu_usage_samples \in SampleLists({r[1] : r \in Readings})
    /\ memory_usage_samples \in SampleLists({r[2] : r \in Readings})
    /\ duration \in Durations
    /\ energy_kwh = Rat(0)
    /\ co2_kg = Rat(0)
    /\ DirectCommon

\* MeasurementResult(energy_kwh=..., co2_kg=..., duration_s=...), constructed
\* with any three values.
ConstructInit ==
    /\ pc = "construct"
    /\ caller = "record"
    /\ measurer = ""
    /\ carbon_intensity = JNull
    /\ cpu_usage_samples = <<>>
    /\ memory_usage_samples = <<>>
    /\ energy_kwh \in FieldValues
    /\ co2_kg \in FieldValues
    /\ duration \in FieldValues
    /\ DirectCommon

\* ---------------------------------------------------------- environment
\* Wall-clock time passes while a call runs.
Tick ==
    /\ ~Over
    /\ clock < MaxClock
    /\ clock' = clock + 1
    /\ UNCHANGED <<pc, setup, lookup, times, child, samples, figures, io, effects>>
    /\ UNCHANGED badge

\* The child terminates, with any exit status, and stays a zombie until waited on.
ChildExit ==
    /\ process = "running"
    /\ \E rc \in ExitStatuses : returncode' = rc
    /\ process' = "exited"
    /\ UNCHANGED <<pc, clock, setup, lookup, times, samples, figures, io, effects>>
    /\ UNCHANGED badge

\* -------------------------------------------------------------- entries
\* The process environment a call finds.
Environments == [GREEN_CI_TEST : TestFlagValues, ELECTRICITY_MAPS_API_KEY : KeyValues]

\* A new call that keeps the client of the call before it: the answer it got
\* and the count of its lookups stay.
FreshKeepsLookup ==
    /\ response' = response
    /\ carbon_intensity' = carbon_intensity
    /\ start_time' = 0
    /\ end_time' = 0
    /\ duration' = Rat(0)
    /\ process' = "none"
    /\ returncode' = 0
    /\ cpu_percent' = 0
    /\ memory_info' = 0
    /\ cpu_usage_samples' = <<>>
    /\ memory_usage_samples' = <<>>
    /\ broke' = ""
    /\ energy_kwh' = Rat(0)
    /\ co2_kg' = Rat(0)
    /\ result' = NoResult
    /\ error' = ""
    /\ stdout' = <<>>
    /\ stderr' = <<>>
    /\ exit_code' = -1
    /\ built' = 0
    /\ lookups' = lookups
    /\ requests' = requests
    /\ spawned' = 0

\* What a new call starts from: every local is unbound, nothing has been done.
Fresh ==
    /\ response' = NoResponse
    /\ carbon_intensity' = JNull
    /\ start_time' = 0
    /\ end_time' = 0
    /\ duration' = Rat(0)
    /\ process' = "none"
    /\ returncode' = 0
    /\ cpu_percent' = 0
    /\ memory_info' = 0
    /\ cpu_usage_samples' = <<>>
    /\ memory_usage_samples' = <<>>
    /\ broke' = ""
    /\ energy_kwh' = Rat(0)
    /\ co2_kg' = Rat(0)
    /\ result' = NoResult
    /\ error' = ""
    /\ stdout' = <<>>
    /\ stderr' = <<>>
    /\ exit_code' = -1
    /\ built' = 0
    /\ lookups' = 0
    /\ requests' = 0
    /\ spawned' = 0

\* `green-ci measure COMMAND...`: click requires at least one argument.
StartCli ==
    /\ Over
    /\ calls < MaxCalls
    /\ \E cmd \in {c \in Commands : ~Falsy(c)} : command' = cmd
    /\ caller' = "cli"
    /\ calls' = calls + 1
    /\ \E e \in Environments : environ' = e
    /\ measurer' = ""
    /\ key_arg' = NoneStr
    /\ api_key' = NoneStr
    /\ pc' = "check"
    /\ Fresh
    /\ UNCHANGED clock
    /\ UNCHANGED badge

\* measure_command_execution(command), called as a library function.
StartCall ==
    /\ Over
    /\ calls < MaxCalls
    /\ \E cmd \in Commands : command' = cmd
    /\ caller' = "api"
    /\ calls' = calls + 1
    /\ \E e \in Environments : environ' = e
    /\ measurer' = ""
    /\ key_arg' = NoneStr
    /\ api_key' = NoneStr
    /\ pc' = "check"
    /\ Fresh
    /\ UNCHANGED clock
    /\ UNCHANGED badge

\* ElectricityMapsClient(api_key).get_carbon_intensity(), called directly:
\* the constructor runs here, the lookup follows.
StartClient ==
    /\ Over
    /\ calls < MaxCalls
    /\ \E e \in Environments, arg \in KeyValues :
        /\ environ' = e
        /\ key_arg' = arg
        /\ api_key' = client_init(arg, e.ELECTRICITY_MAPS_API_KEY)
    /\ caller' = "client"
    /\ calls' = calls + 1
    /\ command' = NoneCommand
    /\ measurer' = ""
    /\ pc' = "lookup"
    /\ Fresh
    /\ UNCHANGED clock
    /\ UNCHANGED badge

\* ------------------------------------------- measure_command_execution
\* Check without the `if not command` test: every command goes on.
CheckNoValidation ==
    /\ pc = "check"
    /\ error' = error
    /\ pc' = "select"
    /\ UNCHANGED <<clock, setup, lookup, times, child, samples, energy_kwh, co2_kg,
                   result, io, effects>>
    /\ UNCHANGED badge

\* if not command: raise ValueError("Command cannot be empty")
Check ==
    /\ pc = "check"
    /\ IF Falsy(command)
       THEN /\ error' = "ValueError: Command cannot be empty"
            /\ pc' = "raised"
       ELSE /\ error' = error
            /\ pc' = "select"
    /\ UNCHANGED <<clock, setup, lookup, times, child, samples, energy_kwh, co2_kg,
                   result, io, effects>>
    /\ UNCHANGED badge

\* is_test_mode taken as the truthiness of GREEN_CI_TEST instead of == "1".
is_test_mode_truthy(env) == ~FalsyStr(env.GREEN_CI_TEST)

\* is_test_mode = os.getenv("GREEN_CI_TEST") == "1"
is_test_mode(env) == env.GREEN_CI_TEST = "1"

\* Select with the lookup moved after the run: the real strategy goes straight
\* to the start timestamp with the default intensity.
SelectNoLookup ==
    /\ pc = "select"
    /\ built' = built + 1
    /\ IF is_test_mode(environ)
       THEN /\ measurer' = "StubMeasurer"
            /\ api_key' = api_key
            /\ pc' = "stub_start"
       ELSE /\ measurer' = "EnergyMeasurer"
            /\ api_key' = client_init(key_arg, environ.ELECTRICITY_MAPS_API_KEY)
            /\ pc' = "start"
    /\ UNCHANGED <<clock, caller, calls, environ, command, key_arg, lookup, times, child, samples,
                   figures, io, lookups, requests, spawned>>
    /\ UNCHANGED badge

\* The measurer is chosen and constructed; EnergyMeasurer.__init__ builds its
\* ElectricityMapsClient() with no key argument.
Select ==
    /\ pc = "select"
    /\ built' = built + 1
    /\ IF is_test_mode(environ)
       THEN /\ measurer' = "StubMeasurer"
            /\ api_key' = api_key
            /\ pc' = "stub_start"
       ELSE /\ measurer' = "EnergyMeasurer"
            /\ api_key' = client_init(key_arg, environ.ELECTRICITY_MAPS_API_KEY)
            /\ pc' = "lookup"
    /\ UNCHANGED <<clock, caller, calls, environ, command, key_arg, lookup, times, child, samples,
                   figures, io, lookups, requests, spawned>>
    /\ UNCHANGED badge

\* ------------------------------------------------------ carbon intensity
\* get_carbon_intensity(), and in EnergyMeasurer.measure_command the
\* try/except around it.  The API's answer is the environment's choice.
Lookup ==
    /\ pc = "lookup"
    /\ lookups' = lookups + 1
    /\ requests' = IF issues_request(api_key) THEN requests + 1 ELSE requests
    /\ \E resp \in IF issues_request(api_key) THEN Responses ELSE {NoResponse} :
        LET got == get_carbon_intensity(api_key, resp)
        IN  /\ response' = resp
            /\ IF got.exc = ""
               THEN /\ carbon_intensity' = got.value
                    /\ error' = error
                    /\ pc' = IF caller = "client" THEN "returned" ELSE "start"
               ELSE IF caller = "client"
               THEN /\ carbon_intensity' = carbon_intensity
                    /\ error' = got.exc
                    /\ pc' = "raised"
               ELSE /\ carbon_intensity' = JNum(DEFAULT_CARBON_INTENSITY)
                    /\ error' = error
                    /\ pc' = "start"
    /\ UNCHANGED <<clock, setup, times, child, samples, energy_kwh, co2_kg, result, io,
                   built, spawned>>
    /\ UNCHANGED badge

\* ------------------------------------- EnergyMeasurer.measure_command
\* start_time = time.time() (and the discarded psutil.cpu_percent reading).
StartTime ==
    /\ pc = "start"
    /\ start_time' = clock
    /\ pc' = "launch"
    /\ UNCHANGED <<clock, setup, lookup, end_time, duration, child, samples, figures, io,
                   effects>>
    /\ UNCHANGED badge

\* process = subprocess.Popen(command), then the two empty sample lists.
\* Popen raises when the command cannot be started: no child exists then.
Launch ==
    /\ pc = "launch"
    /\ \/ /\ process' = "running"
          /\ spawned' = spawned + 1
          /\ cpu_usage_samples' = <<>>
          /\ memory_usage_samples' = <<>>
          /\ broke' = broke
          /\ pc' = "attach"
       \/ /\ broke' = "LaunchError"
          /\ pc' = "fallback"
          /\ UNCHANGED <<process, spawned, cpu_usage_samples, memory_usage_samples>>
    /\ UNCHANGED <<clock, setup, lookup, times, returncode, cpu_percent, memory_info,
                   figures, io, built, lookups, requests>>
    /\ UNCHANGED badge

\* The exceptions a psutil call on the child can raise: NoSuchProcess once the
\* child has terminated, AccessDenied or any other exception at any time.
PsutilErrors == IF process = "running"
                THEN {"AccessDenied", "OtherError"}
                ELSE {"NoSuchProcess", "AccessDenied", "OtherError"}

\* The handlers with the inner `except` clauses missing.
HandlerOuterOnly(exc, inner) == "fallback"

\* Where an exception raised while monitoring is handled: NoSuchProcess and
\* AccessDenied by the handlers of the inner try statements, which go on to
\* process.wait(); anything else by the outer `except Exception`.
Handler(exc, inner) ==
    IF exc \in {"NoSuchProcess", "AccessDenied"} THEN inner ELSE "fallback"

\* proc = psutil.Process(process.pid)
Attach ==
    /\ pc = "attach"
    /\ \/ /\ pc' = "poll"
          /\ broke' = broke
       \/ \E exc \in PsutilErrors :
            /\ broke' = exc
            /\ pc' = Handler(exc, "wait_race")
    /\ UNCHANGED <<clock, setup, lookup, times, child, cpu_percent, memory_info,
                   cpu_usage_samples, memory_usage_samples, figures, io, effects>>
    /\ UNCHANGED badge

\* `while True:` in place of `while process.poll() is None:`: a tick starts
\* whether or not the child still runs.
PollNoLivenessCheck ==
    /\ pc = "poll"
    /\ \/ /\ process \in {"running", "exited"}
          /\ Len(cpu_usage_samples) < MaxSamples
          /\ pc' = "read"
          /\ process' = process
       \/ /\ process = "exited"
          /\ Len(cpu_usage_samples) >= MaxSamples
          /\ process' = "reaped"
          /\ pc' = "wait"
    /\ UNCHANGED <<clock, setup, lookup, times, returncode, samples, figures, io, effects>>
    /\ UNCHANGED badge

\* while process.poll() is None: poll() reaps a child that has terminated and
\* then the loop is left; a running child starts another tick.
Poll ==
    /\ pc = "poll"
    /\ \/ /\ process = "running"
          /\ Len(cpu_usage_samples) < MaxSamples
          /\ pc' = "read"
          /\ process' = process
       \/ /\ process = "exited"
          /\ process' = "reaped"
          /\ pc' = "wait"
    /\ UNCHANGED <<clock, setup, lookup, times, returncode, samples, figures, io, effects>>
    /\ UNCHANGED badge

\* The tick written as read, append, read, append: the memory read can fail
\* after the CPU reading has been appended.
ReadAppendsBetween ==
    /\ pc = "read"
    /\ \/ \E r \in Readings :
            /\ cpu_percent' = r[1]
            /\ memory_info' = r[2]
            /\ broke' = broke
            /\ pc' = "append_cpu"
            /\ UNCHANGED cpu_usage_samples
       \/ \E exc \in PsutilErrors :
            /\ broke' = exc
            /\ pc' = Handler(exc, "wait")
            /\ UNCHANGED <<cpu_percent, memory_info>>
            /\ \/ UNCHANGED cpu_usage_samples
               \/ \E r \in Readings :
                    cpu_usage_samples' = Append(cpu_usage_samples, r[1])
    /\ UNCHANGED <<clock, setup, lookup, times, child, memory_usage_samples, figures, io,
                   effects>>
    /\ UNCHANGED badge

\* cpu_percent = proc.cpu_percent(); memory_info = proc.memory_info()
Read ==
    /\ pc = "read"
    /\ \/ \E r \in Readings :
            /\ cpu_percent' = r[1]
            /\ memory_info' = r[2]
            /\ broke' = broke
            /\ pc' = "append_cpu"
       \/ \E exc \in PsutilErrors :
            /\ broke' = exc
            /\ pc' = Handler(exc, "wait")
            /\ UNCHANGED <<cpu_percent, memory_info>>
    /\ UNCHANGED <<clock, setup, lookup, times, child, cpu_usage_samples,
                   memory_usage_samples, figures, io, effects>>
    /\ UNCHANGED badge

\* cpu_usage_samples.append(cpu_percent)
AppendCpu ==
    /\ pc = "append_cpu"
    /\ cpu_usage_samples' = Append(cpu_usage_samples, cpu_percent)
    /\ pc' = "append_mem"
    /\ UNCHANGED <<clock, setup, lookup, times, child, cpu_percent, memory_info,
                   memory_usage_samples, broke, figures, io, effects>>
    /\ UNCHANGED badge

\* memory_usage_samples.append(memory_info.rss)
AppendMem ==
    /\ pc = "append_mem"
    /\ memory_usage_samples' = Append(memory_usage_samples, memory_info)
    /\ pc' = "sleep"
    /\ UNCHANGED <<clock, setup, lookup, times, child, cpu_percent, memory_info,
                   cpu_usage_samples, broke, figures, io, effects>>
    /\ UNCHANGED badge

\* time.sleep(0.1)
Sleep ==
    /\ pc = "sleep"
    /\ clock' = clock + SleepTicks
    /\ pc' = "poll"
    /\ UNCHANGED <<setup, lookup, times, child, samples, figures, io, effects>>
    /\ UNCHANGED badge

\* process.wait(), after the loop: blocks until the child has terminated.
Wait ==
    /\ pc = "wait"
    /\ process \in {"exited", "reaped"}
    /\ process' = "reaped"
    /\ pc' = "end"
    /\ UNCHANGED <<clock, setup, lookup, times, returncode, samples, figures, io, effects>>
    /\ UNCHANGED badge

\* process.wait(), in the handler of the try around psutil.Process(...).
WaitRace ==
    /\ pc = "wait_race"
    /\ process \in {"exited", "reaped"}
    /\ process' = "reaped"
    /\ pc' = "end"
    /\ UNCHANGED <<clock, setup, lookup, times, returncode, samples, figures, io, effects>>
    /\ UNCHANGED badge

\* except Exception: the synthetic sample replaces the lists; nothing is done
\* about the child.
Fallback ==
    /\ pc = "fallback"
    /\ cpu_usage_samples' = FallbackCpu
    /\ memory_usage_samples' = FallbackMem
    /\ pc' = "end"
    /\ UNCHANGED <<clock, setup, lookup, times, child, cpu_percent, memory_info, broke,
                   figures, io, effects>>
    /\ UNCHANGED badge

\* end_time = time.time(); duration = end_time - start_time
EndTime ==
    /\ pc = "end"
    /\ end_time' = clock
    /\ duration' = Norm(clock - start_time, TicksPerSecond)
    /\ pc' = "estimate"
    /\ UNCHANGED <<clock, setup, lookup, start_time, child, samples, figures, io, effects>>
    /\ UNCHANGED badge

\* energy_kwh = self._calculate_energy_consumption(...); called on its own,
\* the estimator returns the figure to its caller.
Estimate ==
    /\ pc = "estimate"
    /\ energy_kwh' =
        calculate_energy_consumption(cpu_usage_samples, memory_usage_samples, duration)
    /\ pc' = IF caller = "estimator" THEN "returned" ELSE "co2"
    /\ UNCHANGED <<clock, setup, lookup, times, child, samples, co2_kg, result, error, io,
                   effects>>
    /\ UNCHANGED badge

\* co2_kg = energy_kwh * (carbon_intensity / 1000)
Co2 ==
    /\ pc = "co2"
    /\ IF IsNumber(carbon_intensity)
       THEN /\ co2_kg' = co2_of(energy_kwh, carbon_intensity)
            /\ error' = error
            /\ pc' = "construct"
       ELSE /\ co2_kg' = co2_kg
            /\ error' = "TypeError: unsupported operand type(s) for /"
            /\ pc' = "raised"
    /\ UNCHANGED <<clock, setup, lookup, times, child, samples, energy_kwh, result, io,
                   effects>>
    /\ UNCHANGED badge

\* return MeasurementResult(energy_kwh=..., co2_kg=..., duration_s=duration)
Construct ==
    /\ pc = "construct"
    /\ LET err == post_init(energy_kwh, co2_kg, duration)
       IN  IF err = ""
           THEN /\ result' = MeasurementResult(energy_kwh, co2_kg, duration)
                /\ error' = error
                /\ pc' = "returned"
           ELSE /\ result' = result
                /\ error' = err
                /\ pc' = "raised"
    /\ UNCHANGED <<clock, setup, lookup, times, child, samples, energy_kwh, co2_kg, io,
                   effects>>
    /\ UNCHANGED badge

\* --------------------------------------- StubMeasurer.measure_command
\* start_time = time.time()
StubStart ==
    /\ pc = "stub_start"
    /\ start_time' = clock
    /\ pc' = "stub_run"
    /\ UNCHANGED <<clock, setup, lookup, end_time, duration, child, samples, figures, io,
                   effects>>
    /\ UNCHANGED badge

\* subprocess.run outside its try/except: a launch failure reaches the caller.
StubRunPropagates ==
    /\ pc = "stub_run"
    /\ \/ /\ process' = "running"
          /\ spawned' = spawned + 1
          /\ broke' = broke
          /\ error' = error
          /\ pc' = "stub_wait"
       \/ /\ broke' = "LaunchError"
          /\ error' = "FileNotFoundError"
          /\ pc' = "raised"
          /\ UNCHANGED <<process, spawned>>
    /\ UNCHANGED <<clock, setup, lookup, times, returncode, cpu_percent, memory_info,
                   cpu_usage_samples, memory_usage_samples, energy_kwh, co2_kg, result, io,
                   built, lookups, requests>>
    /\ UNCHANGED badge

\* subprocess.run(command, capture_output=True, check=False) starts the child;
\* an exception (the command cannot be started) is passed over.
StubRun ==
    /\ pc = "stub_run"
    /\ \/ /\ process' = "running"
          /\ spawned' = spawned + 1
          /\ broke' = broke
          /\ pc' = "stub_wait"
       \/ /\ broke' = "LaunchError"
          /\ pc' = "stub_end"
          /\ UNCHANGED <<process, spawned>>
    /\ UNCHANGED <<clock, setup, lookup, times, returncode, cpu_percent, memory_info,
                   cpu_usage_samples, memory_usage_samples, figures, io, built, lookups,
                   requests>>
    /\ UNCHANGED badge

\* subprocess.run returns once the child has terminated and been waited on.
StubWait ==
    /\ pc = "stub_wait"
    /\ process = "exited"
    /\ process' = "reaped"
    /\ pc' = "stub_end"
    /\ UNCHANGED <<clock, setup, lookup, times, returncode, samples, figures, io, effects>>
    /\ UNCHANGED badge

\* end_time, duration and the MeasurementResult of constant energy and CO2.
StubEnd ==
    /\ pc = "stub_end"
    /\ end_time' = clock
    /\ duration' = Norm(clock - start_time, TicksPerSecond)
    /\ LET err == post_init(StubEnergy, StubCo2, duration')
       IN  IF err = ""
           THEN /\ result' = MeasurementResult(StubEnergy, StubCo2, duration')
                /\ error' = error
                /\ pc' = "returned"
           ELSE /\ result' = result
                /\ error' = err
                /\ pc' = "raised"
    /\ UNCHANGED <<clock, setup, lookup, start_time, child, samples, energy_kwh, co2_kg, io,
                   effects>>
    /\ UNCHANGED badge

\* ------------------------------------------------------------------ cli
\* measure() with a bare `except:`: the SystemExit of sys.exit(0) is caught
\* after the JSON line is out, reported, and turned into exit 1.
CliOutputBareExcept ==
    /\ pc = "returned"
    /\ caller = "cli"
    /\ exit_code = -1
    /\ LET output_data == to_dict(result)
       IN  IF schema_valid(output_data)
           THEN /\ stdout' = Append(stdout, json_output(output_data))
                /\ stderr' = Append(stderr, "Error: 0")
                /\ exit_code' = 1
           ELSE /\ stdout' = stdout
                /\ stderr' = Append(stderr, "Error: ValidationError")
                /\ exit_code' = 1
    /\ pc' = "exited"
    /\ UNCHANGED <<clock, setup, lookup, times, child, samples, figures, effects>>
    /\ UNCHANGED badge

\* measure(): result.to_dict(), validate_measurement_output, the JSON line,
\* sys.exit(0).  SystemExit is no Exception: the handler below does not see it.
CliOutput ==
    /\ pc = "returned"
    /\ caller = "cli"
    /\ exit_code = -1
    /\ LET output_data == to_dict(result)
       IN  IF schema_valid(output_data)
           THEN /\ stdout' = Append(stdout, json_output(output_data))
                /\ stderr' = stderr
                /\ exit_code' = 0
           ELSE /\ stdout' = stdout
                /\ stderr' = Append(stderr, "Error: ValidationError")
                /\ exit_code' = 1
    /\ pc' = "exited"
    /\ UNCHANGED <<clock, setup, lookup, times, child, samples, figures, effects>>
    /\ UNCHANGED badge

\* except Exception as e: click.echo(f"Error: {e}", err=True); sys.exit(1)
CliError ==
    /\ pc = "raised"
    /\ caller = "cli"
    /\ exit_code = -1
    /\ stderr' = Append(stderr, "Error: " \o error)
    /\ exit_code' = 1
    /\ pc' = "exited"
    /\ UNCHANGED <<clock, setup, lookup, times, child, samples, figures, stdout, effects>>
    /\ UNCHANGED badge

\* ------------------------------------------------------ library callers
\* result.<field> = v, by the caller that holds a returned MeasurementResult.
\* A frozen dataclass raises FrozenInstanceError instead.
SetAttr ==
    /\ pc = "returned"
    /\ caller \in {"api", "record"}
    /\ error = ""
    /\ ~frozen
    /\ \E f \in {"energy_kwh", "co2_kg", "duration_s"}, v \in FieldValues :
        result' = [result EXCEPT ![f] = v]
    /\ UNCHANGED <<pc, clock, setup, lookup, times, child, samples, energy_kwh, co2_kg, error,
                   io, effects>>
    /\ UNCHANGED badge

\* -------------------------------------------------------- badge service
\* A CI run stores its measurement: created_at is the database's now().
InsertRun ==
    /\ Len(table) < MaxRows
    /\ \E o \in Orgs, r \in Repos, c \in Co2Values :
        table' = Append(table, MeasurementRun(o, r, c, db_now))
    /\ UNCHANGED <<db_now, bpc, org, repo, measurement, badge_data, svg_content,
                   response_headers, http_response>>
    /\ UNCHANGED cli

\* The database's clock advances.
DbTick ==
    /\ db_now < MaxDbClock
    /\ db_now' = db_now + 1
    /\ UNCHANGED <<table, bpc, org, repo, measurement, badge_data, svg_content,
                   response_headers, http_response>>
    /\ UNCHANGED cli

\* GET /badge/{org}/{repo}.svg arrives: the framework calls get_badge with the
\* path parameters and a fresh `response` object.
BadgeRequest ==
    /\ bpc \in {"idle", "sent"}
    /\ \E o \in Orgs, r \in Repos : org' = o /\ repo' = r
    /\ measurement' = NoRow
    /\ badge_data' = NoBadgeData
    /\ svg_content' = NoSvg
    /\ response_headers' = NoHeaders
    /\ http_response' = NoHttpResponse
    /\ bpc' = "query"
    /\ UNCHANGED <<table, db_now>>
    /\ UNCHANGED cli

\* measurement = await db_service.get_latest_measurement(db, org, repo); when
\* the query raises, the framework answers 500.
BadgeQuery ==
    /\ bpc = "query"
    /\ \/ /\ \E m \in IF LatestRows(table, org, repo) = {} THEN {NoRow}
                      ELSE {FoundRow(r) : r \in LatestRows(table, org, repo)} :
                measurement' = m
          /\ http_response' = http_response
          /\ bpc' = "data"
       \/ /\ measurement' = measurement
          /\ http_response' = ErrorResponse
          /\ bpc' = "sent"
    /\ UNCHANGED <<table, db_now, org, repo, badge_data, svg_content, response_headers>>
    /\ UNCHANGED cli

\* if measurement: BadgeData(org, repo, co2_kg, created_at) else BadgeData(org, repo)
BadgeBuild ==
    /\ bpc = "data"
    /\ badge_data' =
        IF measurement.found
        THEN BadgeData(org, repo, SomeFloat(measurement.row.co2_kg),
                       SomeTime(measurement.row.created_at))
        ELSE BadgeData(org, repo, NoneFloat, NoneTime)
    /\ bpc' = "render"
    /\ UNCHANGED <<table, db_now, org, repo, measurement, svg_content, response_headers,
                   http_response>>
    /\ UNCHANGED cli

\* svg_content = svg_generator.generate_badge(badge_data)
BadgeRender ==
    /\ bpc = "render"
    /\ svg_content' = generate_badge(badge_data)
    /\ bpc' = "headers"
    /\ UNCHANGED <<table, db_now, org, repo, measurement, badge_data, response_headers,
                   http_response>>
    /\ UNCHANGED cli

\* response.headers["Cache-Control"] = ...; response.headers["ETag"] = ...:
\* both are set on the injected `response` parameter.
BadgeHeaders ==
    /\ bpc = "headers"
    /\ response_headers' =
        SetHeader(SetHeader(response_headers, "Cache-Control", TextHeader("max-age=3600")),
                  "ETag", QuotedHeader(get_etag(badge_data)))
    /\ bpc' = "return"
    /\ UNCHANGED <<table, db_now, org, repo, measurement, badge_data, svg_content,
                   http_response>>
    /\ UNCHANGED cli

\* return FastAPIResponse(content=svg_content, media_type="image/svg+xml"): a
\* Response returned by the handler is sent as it is; the injected `response`
\* is used only when the handler returns something else.
BadgeReturn ==
    /\ bpc = "return"
    /\ http_response' = FastAPIResponse(svg_content, "image/svg+xml")
    /\ bpc' = "sent"
    /\ UNCHANGED <<table, db_now, org, repo, measurement, badge_data, svg_content,
                   response_headers>>
    /\ UNCHANGED cli

\* -------------------------------------------------------- specification
Next ==
    \/ Tick
    \/ ChildExit
    \/ StartCli
    \/ StartCall
    \/ StartClient
    \/ Check
    \/ Select
    \/ Lookup
    \/ StartTime
    \/ Launch
    \/ Attach
    \/ Poll
    \/ Read
    \/ AppendCpu
    \/ AppendMem
    \/ Sleep
    \/ Wait
    \/ WaitRace
    \/ Fallback
    \/ EndTime
    \/ Estimate
    \/ Co2
    \/ Construct
    \/ StubStart
    \/ StubRun
    \/ StubWait
    \/ StubEnd
    \/ CliOutput
    \/ CliError

Spec == Init /\ [][Next]_vars

\* The CLI's calls, and the estimator and the record constructor applied to
\* inputs of their own.
DirectInit == Init \/ EstimateInit \/ ConstructInit

DirectSpec == DirectInit /\ [][Next]_vars

\* Records are constructed, and their holder goes on to use them.
RecordNext ==
    \/ Construct
    \/ SetAttr

RecordSpec == ConstructInit /\ [][RecordNext]_vars

\* The badge service: runs are stored and badges are requested.
BadgeNext ==
    \/ InsertRun
    \/ DbTick
    \/ BadgeRequest
    \/ BadgeQuery
    \/ BadgeBuild
    \/ BadgeRender
    \/ BadgeHeaders
    \/ BadgeReturn

BadgeSpec == Init /\ [][BadgeNext]_vars

\* =============================================================== claims
\* The real strategy is running or has run in this call.
Real == measurer = "EnergyMeasurer"

\* The end timestamp of the real strategy has been taken.
AfterEnd == Real /\ pc \in {"estimate", "co2", "construct", "returned", "raised", "exited"}

\* C1: measure_command_execution called with None or with an empty list raises
\* ValueError("Command cannot be empty") and, at every moment of that call, no
\* measurer has been constructed, no carbon-intensity lookup or request has
\* been made and no child process has been spawned.
C1_EmptyCommandRaisesFirst ==
    (calls > 0 /\ caller # "client" /\ Falsy(command)) =>
        /\ pc \in {"check", "raised"}
        /\ pc = "raised" => error = "ValueError: Command cannot be empty"
        /\ measurer = ""
        /\ built = 0
        /\ lookups = 0
        /\ requests = 0
        /\ spawned = 0
        /\ process = "none"

\* C1 witness: a call with None has ended in the ValueError.
C1_Witness ==
    /\ caller = "api"
    /\ command = NoneCommand
    /\ pc = "raised"
    /\ error = "ValueError: Command cannot be empty"

\* C2: whenever the real strategy's measure_command has returned or raised,
\* a child that was launched has been waited on (reaped), and when the launch
\* itself threw there is no child at all.
C2_ChildReapedOnEveryExit ==
    (Real /\ pc \in {"returned", "raised", "exited"}) => process \in {"none", "reaped"}

\* C3: when the launch fails in the real strategy, measure_command raises
\* nothing and returns a MeasurementResult computed from exactly the one
\* synthetic sample and the elapsed duration, with no negative field.
C3_LaunchFailureYieldsResult ==
    (Real /\ broke = "LaunchError" /\ Over) =>
        /\ error = ""
        /\ cpu_usage_samples = FallbackCpu
        /\ memory_usage_samples = FallbackMem
        /\ duration = Norm(end_time - start_time, TicksPerSecond)
        /\ result.energy_kwh = calculate_energy_consumption(FallbackCpu, FallbackMem, duration)
        /\ result.duration_s = duration
        /\ ~RatNeg(result.energy_kwh)
        /\ ~RatNeg(result.co2_kg)
        /\ ~RatNeg(result.duration_s)

\* C4: a poll that fails with NoSuchProcess because the child has already
\* exited is handled by the inner handlers (never by the outer one), leads
\* to process.wait(), leaves the two sample lists as they were from then on,
\* and the child is reaped by the time the end timestamp is taken; the
\* energy is estimated from the lists so kept.
C4_PollRaceEndsLoopCleanly ==
    /\ [](broke = "NoSuchProcess" =>
            /\ pc # "fallback"
            /\ AfterEnd => process = "reaped"
            /\ (AfterEnd /\ pc # "estimate") =>
                energy_kwh = calculate_energy_consumption(
                                 cpu_usage_samples, memory_usage_samples, duration))
    /\ [][(broke' = "NoSuchProcess" /\ calls' = calls) =>
            /\ cpu_usage_samples' = cpu_usage_samples
            /\ memory_usage_samples' = memory_usage_samples
            /\ broke # "NoSuchProcess" => pc' \in {"wait", "wait_race"}]_vars

\* C4 witness: the race happened after a sample had been taken, and the
\* measurement returned.
C4_Witness ==
    /\ broke = "NoSuchProcess"
    /\ Len(cpu_usage_samples) > 0
    /\ pc = "returned"
    /\ process = "reaped"

\* C5: once the end timestamp of a launched child's measurement is taken, the
\* child has been reaped, and duration is end_time - start_time, where
\* start_time was taken while no child existed.
C5_DurationSpansChildLifetime ==
    /\ (Real /\ pc = "start") => process = "none"
    /\ (AfterEnd /\ Launched) =>
        /\ process = "reaped"
        /\ duration = Norm(end_time - start_time, TicksPerSecond)

\* C6: nothing stops the real strategy before the child has terminated and
\* nothing stops it afterwards: while the child runs and fewer than
\* MaxSamples ticks have been taken the liveness check starts another tick;
\* once the child has terminated, the liveness check and both process.wait()
\* calls can proceed (every other step needs nothing but its turn); and the
\* call then ends by returning a result, not an error.
C6_ReturnsOnceChildTerminates ==
    /\ (Real /\ pc = "poll" /\ process = "running"
        /\ Len(cpu_usage_samples) < MaxSamples) => ENABLED Poll
    /\ (Real /\ process \in {"exited", "reaped"}) =>
        /\ pc = "poll" => ENABLED Poll
        /\ pc = "wait" => ENABLED Wait
        /\ pc = "wait_race" => ENABLED WaitRace
    /\ (Real /\ Over /\ process \in {"exited", "reaped"}) =>
        /\ error = ""
        /\ result.duration_s = duration
        /\ result.energy_kwh = energy_kwh

\* The lookup failed: no answer, a status other than 200, or an unparsable body.
LookupFailed ==
    \/ response.kind \in {"ConnectionError", "Timeout"}
    \/ /\ response.kind = "response"
       /\ response.status # 200 \/ response.body.kind = "unparsable"

\* C7: get_carbon_intensity raises nothing to a direct caller; after a failed
\* lookup the value is the default 400; and a real-strategy call whose lookup
\* failed still tries to launch the child and ends with a result, no error.
C7_LookupNeverRaises ==
    /\ caller = "client" => (pc # "raised" /\ error = "")
    /\ LookupFailed => carbon_intensity = JNum(DEFAULT_CARBON_INTENSITY)
    /\ (Real /\ LookupFailed /\ Over) =>
        /\ error = ""
        /\ Launched \/ broke = "LaunchError"
        /\ result.energy_kwh = energy_kwh
        /\ ~RatNeg(result.co2_kg)

\* C7 witness: the request timed out and the real strategy returned a result
\* for a launched child.
C7_Witness ==
    /\ Real
    /\ response.kind = "Timeout"
    /\ pc = "returned"
    /\ Launched

\* No credential: neither the constructor argument nor the environment.
NoCredential == FalsyStr(key_arg) /\ FalsyStr(environ.ELECTRICITY_MAPS_API_KEY)

\* C8: with no credential the lookup returns exactly 400 and issues no
\* request; a request is issued only with a credential.
C8_NoCredentialNoRequest ==
    /\ (lookups > 0 /\ NoCredential) =>
        /\ carbon_intensity = JNum(DEFAULT_CARBON_INTENSITY)
        /\ requests = 0
        /\ response = NoResponse
    /\ requests > 0 => ~NoCredential

\* C8 witness: a direct lookup with no credential has returned.
C8_Witness ==
    /\ caller = "client"
    /\ NoCredential
    /\ lookups = 1
    /\ pc = "returned"

\* C9: with a credential and an HTTP 200 answer, the lookup returns the body's
\* carbonIntensity when the body has that field and 400 when it has not.
C9_Http200Value ==
    (lookups > 0 /\ ~FalsyStr(api_key) /\ response.kind = "response"
     /\ response.status = 200) =>
        IF response.body.kind = "object" /\ response.body.has
        THEN carbon_intensity = response.body.val
        ELSE carbon_intensity = JNum(DEFAULT_CARBON_INTENSITY)

\* C9 witness: a 200 answer's carbonIntensity of 250 was returned.
C9_Witness ==
    /\ lookups > 0
    /\ response.kind = "response"
    /\ response.status = 200
    /\ response.body.has
    /\ carbon_intensity = JNum(250)

\* C10: every `green-ci measure` whose child was launched ends with exit
\* code 0 and exactly one JSON line on stdout, nothing on stderr.
C10_CliAlwaysPrintsJson ==
    (caller = "cli" /\ Launched /\ pc = "exited") =>
        /\ exit_code = 0
        /\ Len(stdout) = 1
        /\ stderr = <<>>

\* The positions of StubMeasurer.measure_command and of
\* EnergyMeasurer.measure_command.
StubPositions == {"stub_start", "stub_run", "stub_wait", "stub_end"}

RealPositions ==
    {"lookup", "start", "launch", "attach", "poll", "read", "append_cpu", "append_mem",
     "sleep", "wait", "wait_race", "fallback", "end", "estimate", "co2", "construct"}

\* C11: measure_command_execution uses the test strategy exactly when
\* GREEN_CI_TEST is "1" when the call is made and the real strategy for every
\* other value ("0" and unset included); one measurer, never two, is
\* constructed in a call, and the call runs that measurer's code only.
C11_StrategyFollowsTestFlag ==
    caller # "client" =>
        /\ built <= 1
        /\ built = 0 <=> measurer = ""
        /\ measurer = "StubMeasurer" => environ.GREEN_CI_TEST = "1"
        /\ measurer = "EnergyMeasurer" => environ.GREEN_CI_TEST # "1"
        /\ pc \in StubPositions => measurer = "StubMeasurer"
        /\ pc \in RealPositions => measurer = "EnergyMeasurer"
        /\ (pc \in {"returned", "exited"} /\ error = "") => built = 1

\* C11 witness: with GREEN_CI_TEST set to "0" the real strategy ran and returned.
C11_Witness ==
    /\ caller = "api"
    /\ environ.GREEN_CI_TEST = "0"
    /\ measurer = "EnergyMeasurer"
    /\ built = 1
    /\ pc = "returned"

\* C12: the test strategy returns energy_kwh = 0.001 and co2_kg = 0.0005
\* whatever the command and whatever the child did (exit status zero or not,
\* launch failure), with duration_s the elapsed wall-clock time, and raises
\* nothing to the caller.
C12_StubReturnsConstants ==
    (measurer = "StubMeasurer" /\ Over) =>
        /\ error = ""
        /\ pc # "raised"
        /\ RatMul(result.energy_kwh, <<1, KWhScale>>) = Norm(1, 1000)
        /\ RatMul(result.co2_kg, <<1, KWhScale>>) = Norm(5, 10000)
        /\ result.duration_s = Norm(end_time - start_time, TicksPerSecond)
        /\ end_time >= start_time

\* C12 witness: the child could not be launched and the test strategy returned.
C12_Witness ==
    /\ measurer = "StubMeasurer"
    /\ broke = "LaunchError"
    /\ process = "none"
    /\ pc = "returned"

\* C13: a result the real strategy returns has co2_kg = energy_kwh *
\* (carbon_intensity / 1000), where carbon_intensity is what the lookup of
\* this call gave: the provider's value, or the default 400.
C13_Co2IsEnergyTimesIntensity ==
    (Real /\ pc \in {"returned", "exited"} /\ error = "") =>
        /\ carbon_intensity = get_carbon_intensity(api_key, response).value
        /\ IsNumber(carbon_intensity)
        /\ result.co2_kg = RatMul(result.energy_kwh, Norm(carbon_intensity.n, 1000))

\* C13 witness: the provider's 250 g/kWh went into a returned result.
C13_Witness ==
    /\ Real
    /\ pc = "returned"
    /\ response.kind = "response"
    /\ carbon_intensity = JNum(250)
    /\ result.co2_kg = RatMul(result.energy_kwh, <<1, 4>>)
    /\ RatLess(Rat(0), result.co2_kg)

\* The estimator has run in this call (or was called on its own).
EstimateDone == Real /\ pc \in {"co2", "construct", "returned", "raised", "exited"}

\* A held energy figure, in kWh, and a figure in kWh as it is held.
InKWh(x) == RatMul(x, <<1, KWhScale>>)

Held(x) == RatMul(x, Rat(KWhScale))

\* 0.000001 kWh
FloorKWh == Norm(1, 1000000)

\* power (W) * (duration (s) / 3600) / 1000, as it is held: the kilowatts are
\* scaled first, so that no intermediate value leaves 32 bits.
HeldKWhOf(power, dur) ==
    RatMul(Held(RatMul(power, <<1, 1000>>)), RatMul(dur, <<1, 3600>>))

\* C14: with zero samples the estimator raises nothing and computes from the
\* averages 5 % CPU and 0.05 GB, a total power of 15 + 2.5 + 0.15 + 20 =
\* 37.65 W: at a duration of 3600 s the energy is 0.03765 kWh.
C14_ZeroSamplesFallback ==
    (EstimateDone /\ cpu_usage_samples = <<>> /\ memory_usage_samples = <<>>) =>
        /\ error \notin {"ZeroDivisionError", "StatisticsError"}
        /\ energy_kwh = RatMax(HeldKWhOf(Norm(3765, 100), duration), Held(FloorKWh))
        /\ duration = Rat(3600) => InKWh(energy_kwh) = Norm(3765, 100000)

\* C14 witness: the estimator was applied to empty lists and an hour.
C14_Witness ==
    /\ EstimateDone
    /\ cpu_usage_samples = <<>>
    /\ memory_usage_samples = <<>>
    /\ duration = Rat(3600)
    /\ InKWh(energy_kwh) = Norm(3765, 100000)

\* The mean CPU percentage and the mean RSS in GB of the two lists.
MeanCpu == Norm(SumSeq(cpu_usage_samples), Len(cpu_usage_samples))

MeanGB == Norm(SumSeq(memory_usage_samples), Len(memory_usage_samples) * MemUnitsPerGB)

\* (15 + avg_cpu * 0.5) + (avg_memory_gb * 3) + 20
TotalPower ==
    RatAdd(RatAdd(RatAdd(Rat(15), Norm(MeanCpu[1], 2 * MeanCpu[2])),
                  Norm(3 * MeanGB[1], MeanGB[2])), Rat(20))

\* C15: for non-empty lists the estimate, before the floor is applied, is
\* total_power_w * (duration_s / 3600) / 1000 with total_power_w =
\* (15 + avg_cpu * 0.5) + (avg_memory_gb * 3) + 20, avg_cpu the mean of the
\* CPU samples and avg_memory_gb the mean of the RSS samples over 2^30.
C15_EnergyFormula ==
    (EstimateDone /\ cpu_usage_samples # <<>> /\ memory_usage_samples # <<>>) =>
        IF RatLess(HeldKWhOf(TotalPower, duration), Held(FloorKWh))
        THEN energy_kwh = Held(FloorKWh)
        ELSE energy_kwh = HeldKWhOf(TotalPower, duration)

\* C15 witness: two different readings were averaged over one second.
C15_Witness ==
    /\ EstimateDone
    /\ Len(cpu_usage_samples) = 2
    /\ cpu_usage_samples[1] # cpu_usage_samples[2]
    /\ memory_usage_samples # <<>>
    /\ duration = Rat(1)
    /\ energy_kwh = HeldKWhOf(TotalPower, duration)

\* C16: the estimator's result is never below 0.000001 kWh, for any lists and
\* any duration, and is exactly 0.000001 at duration 0; so every result the
\* real strategy returns has energy_kwh > 0.
C16_EnergyFloor ==
    /\ EstimateDone =>
        /\ ~RatLess(energy_kwh, Held(FloorKWh))
        /\ duration = Rat(0) => InKWh(energy_kwh) = FloorKWh
    /\ (Real /\ caller # "estimator" /\ pc \in {"returned", "exited"} /\ error = "") =>
        /\ result.energy_kwh = energy_kwh
        /\ RatLess(Rat(0), result.energy_kwh)

\* C16 witness: the real strategy returned after a launch failure that took
\* no time, with the floor as its energy.
C16_Witness ==
    /\ Real
    /\ caller = "api"
    /\ broke = "LaunchError"
    /\ duration = Rat(0)
    /\ pc = "returned"
    /\ InKWh(result.energy_kwh) = FloorKWh

\* No field of the triple a MeasurementResult is constructed from is negative.
NoneNegative(e, c, d) == ~RatNeg(e) /\ ~RatNeg(c) /\ ~RatNeg(d)

ValidationErrors ==
    {"ValueError: Energy consumption cannot be negative",
     "ValueError: CO2 emissions cannot be negative",
     "ValueError: Duration cannot be negative"}

\* C17: MeasurementResult(...) raises its validation error at once when any
\* one of energy_kwh, co2_kg, duration_s is negative and succeeds when none
\* is (zero included); so a measurement whose computed energy, CO2 or
\* duration is negative ends in an error and no result is returned.
C17_ConstructionValidates ==
    /\ [][(pc = "construct" /\ pc' # "construct") =>
            IF NoneNegative(energy_kwh, co2_kg, duration)
            THEN /\ pc' = "returned"
                 /\ error' = ""
                 /\ result' = MeasurementResult(energy_kwh, co2_kg, duration)
            ELSE /\ pc' = "raised"
                 /\ error' \in ValidationErrors
                 /\ result' = NoResult]_vars
    /\ []((pc \in {"returned", "exited"} /\ error = "") =>
            NoneNegative(result.energy_kwh, result.co2_kg, result.duration_s))
    /\ []((caller \in {"api", "cli"} /\ measurer # "" /\ Over
            /\ ~NoneNegative(energy_kwh, co2_kg, duration)) =>
            (error # "" /\ result = NoResult))

\* C17 witness: a measurement computed a negative CO2 figure and ended in the
\* validation error.
C17_Witness ==
    /\ Real
    /\ RatNeg(co2_kg)
    /\ ~RatNeg(energy_kwh)
    /\ pc = "raised"
    /\ error = "ValueError: CO2 emissions cannot be negative"

\* C18: to_dict() returns a mapping with exactly the keys energy_kwh, co2_kg
\* and duration_s, each equal to the field of that name; a MeasurementResult
\* rebuilt from the mapping equals the record; and the call leaves the
\* record as it was.
C18_ToDictRoundTrip ==
    /\ [](LET d == to_dict(result)
          IN  /\ DOMAIN d = {"energy_kwh", "co2_kg", "duration_s"}
              /\ d["energy_kwh"] = result.energy_kwh
              /\ d["co2_kg"] = result.co2_kg
              /\ d["duration_s"] = result.duration_s
              /\ MeasurementResult(d["energy_kwh"], d["co2_kg"], d["duration_s"]) = result)
    /\ [][(pc = "returned" /\ pc' = "exited") => result' = result]_vars

\* C18 witness: the CLI has converted a returned record whose three fields
\* differ and printed it.
C18_Witness ==
    /\ caller = "cli"
    /\ pc = "exited"
    /\ exit_code = 0
    /\ result.energy_kwh # result.co2_kg
    /\ result.co2_kg # result.duration_s
    /\ stdout = <<json_output(to_dict(result))>>

\* C19: a MeasurementResult is immutable: once constructed, nothing changes
\* its fields, so every MeasurementResult in existence is the one that was
\* constructed and has no negative field.
C19_ResultImmutable ==
    (pc = "returned" /\ error = "" /\ caller \in {"api", "cli", "record"}) =>
        /\ result = MeasurementResult(energy_kwh, co2_kg, duration)
        /\ NoneNegative(result.energy_kwh, result.co2_kg, result.duration_s)

\* C20: every successful response of GET /badge/{org}/{repo}.svg, with or
\* without measurement data, carries on the returned response itself
\* Cache-Control: max-age=3600 and an ETag holding the quoted BadgeData ETag,
\* together with the SVG body and the media type image/svg+xml.
C20_BadgeResponseCarriesCacheHeaders ==
    (bpc = "sent" /\ http_response.status = 200) =>
        /\ http_response.content = generate_badge(badge_data)
        /\ http_response.media_type = "image/svg+xml"
        /\ "Cache-Control" \in DOMAIN http_response.headers
        /\ http_response.headers["Cache-Control"] = TextHeader("max-age=3600")
        /\ "ETag" \in DOMAIN http_response.headers
        /\ http_response.headers["ETag"] = QuotedHeader(get_etag(badge_data))

\* The ETag get_badge computed for this request, once it has.
HasETag == bpc \in {"return", "sent"} /\ "ETag" \in DOMAIN response_headers

\* C21: get_etag is deterministic and discriminating: a BadgeData with the
\* same org, repo, co2_kg and last_updated has the same ETag, and a BadgeData
\* of the same org/repo whose co2_kg or last_updated differs has a different
\* one.
C21_ETagDiscriminates ==
    HasETag =>
        \A d \in BadgeDatas(org, repo) :
            IF d.co2_kg = badge_data.co2_kg /\ d.last_updated = badge_data.last_updated
            THEN get_etag(d) = response_headers["ETag"].quoted
            ELSE get_etag(d) # response_headers["ETag"].quoted

\* C22: get_latest_measurement(org, repo) returns a row of org/repo with the
\* greatest created_at among the rows of org/repo in the table, and None when
\* the table has no such row; the badge then shows that row's co2_kg (to three
\* decimals), or "no data".
C22_LatestMeasurementShown ==
    /\ [][(bpc = "query" /\ bpc' = "data") =>
            LET matching ==
                    {i \in DOMAIN table : table[i].org = org /\ table[i].repo = repo}
            IN  IF matching = {}
                THEN measurement' = NoRow
                ELSE /\ measurement'.found
                     /\ \E i \in matching : table[i] = measurement'.row
                     /\ \A i \in matching :
                            table[i].created_at <= measurement'.row.created_at]_vars
    /\ []((bpc \in {"headers", "return"} \/ (bpc = "sent" /\ http_response.status = 200)) =>
            LET shown == IF bpc = "sent" THEN http_response.content.value_text
                         ELSE svg_content.value_text
            IN  IF measurement.found
                THEN /\ shown.text = "kg"
                     /\ shown.milli * measurement.row.co2_kg[2] =
                            1000 * measurement.row.co2_kg[1]
                ELSE shown.text = "no data")

\* C22 witness: of two rows of the requested repository the newer one was
\* returned, and its co2_kg is on the badge sent.
C22_Witness ==
    /\ bpc = "sent"
    /\ http_response.status = 200
    /\ Len(table) = 2
    /\ table[1].org = org /\ table[1].repo = repo
    /\ table[2].org = org /\ table[2].repo = repo
    /\ table[1].created_at < table[2].created_at
    /\ table[1].co2_kg # table[2].co2_kg
    /\ measurement = FoundRow(table[2])
    /\ http_response.content.value_text.milli * table[2].co2_kg[2] = 1000 * table[2].co2_kg[1]

\* C23: get_color gives every badge exactly one colour: gray #9f9f9f when
\* co2_kg is None, green #4c1 when co2_kg < 0.1 (0.0 is data), yellow #dfb317
\* when 0.1 <= co2_kg <= 0.5, red #e05d44 when co2_kg > 0.5.
C23_ColourBands ==
    (bpc \in {"headers", "return"}) =>
        LET n == badge_data.co2_kg.v[1]
            d == badge_data.co2_kg.v[2]
        IN  /\ ~badge_data.co2_kg.some => svg_content.color = "#9f9f9f"
            /\ (badge_data.co2_kg.some /\ 10 * n < d) => svg_content.color = "#4c1"
            /\ (badge_data.co2_kg.some /\ 10 * n >= d /\ 2 * n <= d) =>
                    svg_content.color = "#dfb317"
            /\ (badge_data.co2_kg.some /\ 2 * n > d) => svg_content.color = "#e05d44"

\* C23 witness: a badge for exactly 0.5 kg was rendered yellow.
C23_Witness ==
    /\ bpc = "return"
    /\ badge_data.co2_kg = SomeFloat(<<1, 2>>)
    /\ svg_content.color = "#dfb317"

\* The sample lists of the call going on.
SampleListsOf == <<cpu_usage_samples, memory_usage_samples>>

\* The positions of EnergyMeasurer.measure_command after its monitoring block.
AfterMonitoring ==
    {"wait", "wait_race", "end", "estimate", "co2", "construct", "returned", "raised",
     "exited"}

\* C24: in the polling loop of the real strategy a tick begins only from a
\* liveness check that found the child running, and a sample is recorded only
\* in such a tick; a recorded sample is followed by one sleep of 100 ms and the
\* sleep by the next liveness check; once the loop has been left (the check
\* saw the child terminated) no sample is recorded in that call.
C24_LivenessCheckedEveryTick ==
    [][(Real /\ calls' = calls) =>
        /\ (pc' = "read" /\ pc # "read") => (pc = "poll" /\ process = "running")
        /\ (pc' = "append_cpu" /\ pc # "append_cpu") => pc = "read"
        /\ (pc' = "append_mem" /\ pc # "append_mem") => pc = "append_cpu"
        /\ (SampleListsOf' # SampleListsOf /\ pc # "fallback" /\ pc # "launch") =>
            pc \in {"append_cpu", "append_mem"}
        /\ (pc = "append_mem" /\ pc' # pc) => pc' = "sleep"
        /\ (pc = "sleep" /\ pc' # pc) => (pc' = "poll" /\ clock' = clock + SleepTicks)
        /\ (pc' = "poll" /\ pc # "poll") => pc \in {"attach", "sleep"}
        /\ (pc = "poll" /\ pc' # pc /\ pc' # "read") =>
            (pc' = "wait" /\ process = "exited" /\ process' = "reaped")
        /\ pc \in AfterMonitoring => SampleListsOf' = SampleListsOf]_vars

\* Two samples were recorded in two ticks, then the liveness check saw the
\* child terminated.
C24_Witness ==
    /\ Real
    /\ pc = "wait"
    /\ broke = ""
    /\ process = "reaped"
    /\ Len(cpu_usage_samples) = 2
    /\ Len(memory_usage_samples) = 2

\* C25: the real strategy makes exactly one carbon-intensity lookup per
\* measurement, done before the start timestamp is taken and before the child
\* is launched; the estimate is made only after the end timestamp and the CO2
\* computation only after the estimate; duration is end_time - start_time, so
\* the time the lookup took is no part of it.
C25_LookupBeforeRunEstimateAfter ==
    /\ [](Real =>
            /\ lookups <= 1
            /\ pc = "lookup" => (lookups = 0 /\ process = "none" /\ spawned = 0
                                 /\ start_time = 0)
            /\ pc \in (RealPositions \ {"lookup"}) => lookups = 1
            /\ (pc \in {"returned", "raised", "exited"} /\ caller \in {"api", "cli"}) =>
                lookups = 1
            /\ AfterEnd => duration = Norm(end_time - start_time, TicksPerSecond))
    /\ [][(Real /\ calls' = calls) =>
            /\ lookups' # lookups => (pc = "lookup" /\ pc' = "start")
            /\ (pc' = "start" /\ pc # "start") => pc = "lookup"
            /\ (pc' = "launch" /\ pc # "launch") => (pc = "start" /\ start_time' = clock)
            /\ (pc' = "estimate" /\ pc # "estimate") => (pc = "end" /\ end_time' = clock)
            /\ (pc' = "co2" /\ pc # "co2") => pc = "estimate"
            /\ (pc' = "construct" /\ pc # "construct") => pc = "co2"]_vars

\* Time passed while the lookup (which issued a request) was going on, and the
\* measurement that followed has a duration of zero.
C25_Witness ==
    /\ Real
    /\ caller = "api"
    /\ pc = "returned"
    /\ lookups = 1
    /\ requests = 1
    /\ start_time = 1
    /\ duration = Rat(0)

C27_CliOutputAndExitCode ==
    caller = "cli" =>
        IF pc # "exited"
        THEN stdout = <<>> /\ stderr = <<>> /\ exit_code = -1
        ELSE IF error = "" /\ schema_valid(to_dict(result))
        THEN /\ stdout = <<json_output(to_dict(result))>>
             /\ stderr = <<>>
             /\ exit_code = 0
        ELSE /\ stdout = <<>>
             /\ stderr = <<"Error: " \o (IF error = "" THEN "ValidationError" ELSE error)>>
             /\ exit_code = 1

\* The CLI has exited after a successful measurement in the real strategy.
C27_Witness ==
    /\ caller = "cli"
    /\ pc = "exited"
    /\ Real
    /\ error = ""
    /\ exit_code = 0
    /\ Len(stdout) = 1

\* C28: whenever the child was launched, the real strategy's energy is
\* computed from the samples collected during its run, never from the
\* synthetic sample: the fallback is not entered and the lists are not the
\* synthetic ones.
C28_SyntheticSampleOnlyOnLaunchFailure ==
    (Real /\ Launched) =>
        /\ pc # "fallback"
        /\ AfterEnd => (cpu_usage_samples # FallbackCpu /\ broke # "OtherError")

C30_CarbonIntensityNonNegativeNumber ==
    (Real /\ lookups = 1 /\ pc # "lookup") =>
        /\ IsNumber(carbon_intensity)
        /\ carbon_intensity.n >= 0
        /\ ~RatNeg(co2_kg)
        /\ error = ""

====
